---------------------------- MODULE Spec2Model ----------------------------
(***************************************************************************)
(* Model of gtfs-modifications (src/main.py): a registry of per-file text  *)
(* transformations (compose), the archive pipeline (modify_zip_file), the  *)
(* registry built by the command line (main) and the three text            *)
(* transformations (escape_double_quotes, add_bikes_allowed,               *)
(* change_location_type) with the csv reader and writer they rest on.      *)
(*                                                                         *)
(* A text is a sequence of characters.  A character is a one-character     *)
(* string, except that a column name ("bikes_allowed", "location_type",    *)
(* "id") is written as one element: it stands for its letters in a row,    *)
(* all of them ordinary characters (no comma, quote, caret or line break). *)
(* The bytes of an archive entry are a sequence of the same kind: an ASCII *)
(* character is its own byte, "0xC3" "0xBC" are the two bytes of the       *)
(* letter u-umlaut, written "U+00FC" in a text, and "0xFF" is a byte no    *)
(* UTF-8 text contains.  A character TLA+ has no escape for is written by  *)
(* its code point, "U+001C"; the entries of an archive hold ASCII and      *)
(* u-umlaut only.                                                          *)
(***************************************************************************)
EXTENDS Integers, Sequences, FiniteSets, TLC

VARIABLES
    source,         \* the source archive, once opened: a sequence of [name, data]
    target,         \* the target archive file: a sequence of [name, data]
    target0,        \* what the target file held before the run
    modifications,  \* the dict of main/compose: name -> callable
    registered,     \* per name, the transformations registered so far, in call order
    pc,             \* position of the program
    idx,            \* position of the for loop of modify_zip_file in infolist()
    executed,       \* the transformations called so far: [entry, fun, out]
    error,          \* the exception that ended the run, "" when none
    args,           \* the parsed command line of main
    input,          \* the argument of a transformation called on its own
    fname,          \* the transformation called on its own
    out1,           \* its result
    out2            \* the result of calling it again on out1

vars == <<source, target, target0, modifications, registered, pc, idx,
          executed, error, args, input, fname, out1, out2>>

-----------------------------------------------------------------------------
(* Values a transformation can produce: a str, None, or a raised exception. *)

Str(t) == [kind |-> "str", val |-> t, err |-> ""]

None == [kind |-> "none", val |-> <<>>, err |-> ""]

Raise(e) == [kind |-> "raise", val |-> <<>>, err |-> e]

QUOTE == "\""

COMMA == ","

CR == "\r"

LF == "\n"

-----------------------------------------------------------------------------
(* escape_double_quotes: re.subn(r'([^,^"^\n])"([^,^"^\n])', r'\1""\2', s).   *)
(* The character class excludes the comma, the caret, the quote and the line *)
(* feed.  re.subn replaces the leftmost match, then goes on after the end of *)
(* that match: the character after the quote is consumed with it.            *)

pattern_excluded == {COMMA, "^", QUOTE, LF}

\* The elements of a text that stand for several letters.
IsWord(c) == c \in {"bikes_allowed", "location_type", "id"}

\* The first and the last character of an element of a text.
FirstChar(c) == IF c \in {"bikes_allowed"} THEN "b"
                ELSE IF c \in {"location_type"} THEN "l"
                ELSE IF c \in {"id"} THEN "i" ELSE c

LastChar(c) == IF c \in {"bikes_allowed", "id"} THEN "d"
               ELSE IF c \in {"location_type"} THEN "e" ELSE c

MatchAt(s, i) ==
    /\ i + 2 <= Len(s)
    /\ LastChar(s[i]) \notin pattern_excluded
    /\ s[i + 1] = QUOTE
    /\ FirstChar(s[i + 2]) \notin pattern_excluded

\* The match consumes one character after the quote: of a column name, written
\* as one element, only the first letter, so that the scan goes on inside it.
RECURSIVE subn(_, _)
subn(s, i) ==
    IF i > Len(s) THEN <<>>
    ELSE IF MatchAt(s, i)
         THEN IF IsWord(s[i + 2])
              THEN <<s[i], QUOTE, QUOTE>> \o subn(s, i + 2)
              ELSE <<s[i], QUOTE, QUOTE, s[i + 2]>> \o subn(s, i + 3)
         ELSE <<s[i]>> \o subn(s, i + 1)

escape_double_quotes(file_content) == Str(subn(file_content, 1))

-----------------------------------------------------------------------------
(* str.splitlines(): a line ends at "\r\n" or at one of the line boundaries *)
(* of str: "\n", "\r", vertical tab, form feed, the file, group and record   *)
(* separators, NEL, LINE SEPARATOR and PARAGRAPH SEPARATOR.  The line breaks *)
(* are dropped and no empty line follows the last break.                     *)

line_boundaries ==
    {LF, CR, "U+000B", "\f", "U+001C", "U+001D", "U+001E", "U+0085", "U+2028", "U+2029"}

RECURSIVE splitfrom(_, _, _)
splitfrom(s, i, cur) ==
    IF i > Len(s) THEN (IF cur = <<>> THEN <<>> ELSE <<cur>>)
    ELSE IF s[i] = CR /\ i + 1 <= Len(s) /\ s[i + 1] = LF
         THEN <<cur>> \o splitfrom(s, i + 2, <<>>)
    ELSE IF s[i] \in line_boundaries
         THEN <<cur>> \o splitfrom(s, i + 1, <<>>)
    ELSE splitfrom(s, i + 1, Append(cur, s[i]))

splitlines(s) == splitfrom(s, 1, <<>>)

-----------------------------------------------------------------------------
(* csv.reader(lines, delimiter=',', quotechar='"', quoting=QUOTE_MINIMAL),   *)
(* doublequote on, strict off.  p is the reader: its state, the field being  *)
(* read, the fields of the record being read and the records read so far.    *)
(* The lines come from splitlines and hold no line boundary.                 *)

ReaderStart == [state |-> "START_RECORD", field |-> <<>>, fields |-> <<>>, rows |-> <<>>]

add_char(p, c) == [p EXCEPT !.field = Append(@, c)]

save_field(p) == [p EXCEPT !.fields = Append(@, p.field), !.field = <<>>]

process_char(p, c) ==
    IF p.state \in {"START_RECORD", "START_FIELD"}
    THEN IF c = QUOTE THEN [p EXCEPT !.state = "IN_QUOTED_FIELD"]
         ELSE IF c = COMMA THEN [save_field(p) EXCEPT !.state = "START_FIELD"]
         ELSE [add_char(p, c) EXCEPT !.state = "IN_FIELD"]
    ELSE IF p.state = "IN_FIELD"
    THEN IF c = COMMA THEN [save_field(p) EXCEPT !.state = "START_FIELD"]
         ELSE add_char(p, c)
    ELSE IF p.state = "IN_QUOTED_FIELD"
    THEN IF c = QUOTE THEN [p EXCEPT !.state = "QUOTE_IN_QUOTED_FIELD"]
         ELSE add_char(p, c)
    ELSE \* QUOTE_IN_QUOTED_FIELD
         IF c = QUOTE THEN [add_char(p, c) EXCEPT !.state = "IN_QUOTED_FIELD"]
         ELSE IF c = COMMA THEN [save_field(p) EXCEPT !.state = "START_FIELD"]
         ELSE [add_char(p, c) EXCEPT !.state = "IN_FIELD"]

\* The end of a line: an empty line is an empty record, a line ending inside
\* a quoted field leaves the record open.
process_eol(p) ==
    IF p.state = "START_RECORD" THEN p
    ELSE IF p.state = "IN_QUOTED_FIELD" THEN p
    ELSE [save_field(p) EXCEPT !.state = "START_RECORD"]

RECURSIVE process_line(_, _, _)
process_line(p, line, i) ==
    IF i > Len(line) THEN process_eol(p)
    ELSE process_line(process_char(p, line[i]), line, i + 1)

\* A record is complete when the reader is back at START_RECORD.
end_record(p) ==
    IF p.state = "START_RECORD"
    THEN [p EXCEPT !.rows = Append(@, p.fields), !.fields = <<>>]
    ELSE p

\* The input ends: an open quoted field is saved and its record returned.
end_input(p) ==
    IF Len(p.field) # 0 \/ p.state = "IN_QUOTED_FIELD"
    THEN Append(p.rows, Append(p.fields, p.field))
    ELSE p.rows

RECURSIVE reader(_, _, _)
reader(p, lines, i) ==
    IF i > Len(lines) THEN end_input(p)
    ELSE reader(end_record(process_line(p, lines[i], 1)), lines, i + 1)

parse_csv(lines) == reader(ReaderStart, lines, 1)

-----------------------------------------------------------------------------
(* csv.writer(file, delimiter=',', quotechar='"', quoting=QUOTE_MINIMAL),    *)
(* lineterminator "\r\n": a field is quoted when it holds the delimiter, the *)
(* quote or a character of the line terminator; a quote in it is doubled; a  *)
(* record of one empty field is written as "".                               *)

NeedsQuotes(f) == \E k \in 1..Len(f) : f[k] \in {COMMA, QUOTE, CR, LF}

RECURSIVE double_quotes(_, _)
double_quotes(f, k) ==
    IF k > Len(f) THEN <<>>
    ELSE (IF f[k] = QUOTE THEN <<QUOTE, QUOTE>> ELSE <<f[k]>>) \o double_quotes(f, k + 1)

join_append(f) ==
    IF NeedsQuotes(f) THEN <<QUOTE>> \o double_quotes(f, 1) \o <<QUOTE>> ELSE f

RECURSIVE join_fields(_, _)
join_fields(row, k) ==
    IF k > Len(row) THEN <<>>
    ELSE (IF k > 1 THEN <<COMMA>> ELSE <<>>) \o join_append(row[k]) \o join_fields(row, k + 1)

writerow(row) ==
    (IF row = <<(<<>>)>> THEN <<QUOTE, QUOTE>> ELSE join_fields(row, 1)) \o <<CR, LF>>

RECURSIVE writerows(_, _)
writerows(data, r) ==
    IF r > Len(data) THEN <<>> ELSE writerow(data[r]) \o writerows(data, r + 1)

write_csv(data) == writerows(data, 1)

-----------------------------------------------------------------------------
(* The column transformations.  A table is the list of lists parse_csv        *)
(* returns; data[1] is Python's data[0], the header.                          *)

Contains(header, name) == \E k \in 1..Len(header) : header[k] = name

\* list.index: the first position holding name.
Index(header, name) ==
    CHOOSE k \in 1..Len(header) :
        header[k] = name /\ \A j \in 1..(k - 1) : header[j] # name

\* The for loop of change_location_type over data[1:], from row r on: the
\* first row too short for the column raises IndexError.
RECURSIVE location_rows(_, _, _)
location_rows(data, column_idx, r) ==
    IF r > Len(data) THEN [err |-> "", data |-> data]
    ELSE IF Len(data[r]) < column_idx THEN [err |-> "IndexError", data |-> data]
    ELSE IF data[r][column_idx] = <<"2">>
         THEN location_rows([data EXCEPT ![r][column_idx] = <<"0">>], column_idx, r + 1)
         ELSE location_rows(data, column_idx, r + 1)

change_location_type(stops_txt) ==
    LET data == parse_csv(splitlines(stops_txt))
        column_name == <<"location_type">>
    IN  IF data = <<>> THEN Raise("IndexError")                 \* header = data[0]
        ELSE IF Contains(data[1], column_name)
        THEN LET done == location_rows(data, Index(data[1], column_name), 2)
             IN  IF done.err # "" THEN Raise(done.err)
                 ELSE IF Len(data) = 1 THEN Raise("ZeroDivisionError")  \* / len(data[1:])
                 ELSE Str(write_csv(done.data))
        ELSE Str(write_csv(data))

possible_values == {<<>>, <<"0">>, <<"1">>, <<"2">>}

\* `value == 0` compares a str with the int 0, which no str equals.
equals_int_zero(value) == FALSE

\* The for loop of add_bikes_allowed (exists_ok) over data[1:], from row r on.
RECURSIVE bikes_rows(_, _, _)
bikes_rows(data, column_idx, r) ==
    IF r > Len(data) THEN [err |-> "", data |-> data]
    ELSE IF Len(data[r]) < column_idx THEN [err |-> "IndexError", data |-> data]
    ELSE IF data[r][column_idx] \notin possible_values
         THEN [err |-> "ValueError_BadValue", data |-> data]
    ELSE IF equals_int_zero(data[r][column_idx])
         THEN bikes_rows([data EXCEPT ![r][column_idx] = <<"1">>], column_idx, r + 1)
         ELSE bikes_rows(data, column_idx, r + 1)

\* header.append(column_name); row.append('1') for every row of data[1:].
append_column(data, column_name) ==
    [r \in 1..Len(data) |->
        IF r = 1 THEN Append(data[r], column_name) ELSE Append(data[r], <<"1">>)]

add_bikes_allowed(trips_txt, exists_ok) ==
    LET data == parse_csv(splitlines(trips_txt))
        column_name == <<"bikes_allowed">>
    IN  IF data = <<>> THEN Raise("IndexError")                 \* header = data[0]
        ELSE IF Contains(data[1], column_name)
        THEN IF exists_ok
             THEN LET done == bikes_rows(data, Index(data[1], column_name), 2)
                  IN  IF done.err # "" THEN Raise(done.err)
                      ELSE IF Len(data) = 1 THEN Raise("ZeroDivisionError")
                      ELSE Str(write_csv(done.data))
             ELSE Raise("ValueError_ColumnExists")
        ELSE Str(write_csv(append_column(data, column_name)))

-----------------------------------------------------------------------------
(* The callables of the dict `modifications`.  <<"fun", f>> is the function *)
(* f itself; <<"helper", first, second>> is the closure compose builds,      *)
(* lambda file_content: helper(first, second, file_content).                 *)

Transformations ==
    {"escape_double_quotes", "add_bikes_allowed", "add_bikes_allowed_exists_ok",
     "change_location_type", "delete"}

Fun(f) == <<"fun", f>>

Closure(first, second) == <<"helper", first, second>>

\* "add_bikes_allowed" and "add_bikes_allowed_exists_ok" are the lambda of main
\* with args.exists_ok False and True; "delete" is lambda file_content: None.
apply(f, file_content) ==
    CASE f = "escape_double_quotes" -> escape_double_quotes(file_content)
      [] f = "add_bikes_allowed" -> add_bikes_allowed(file_content, FALSE)
      [] f = "add_bikes_allowed_exists_ok" -> add_bikes_allowed(file_content, TRUE)
      [] f = "change_location_type" -> change_location_type(file_content)
      [] f = "delete" -> None

RECURSIVE call(_, _)
RECURSIVE helper(_, _, _)

\* helper going on to f2, on the content it was given, when f1 returns None.
helper_no_stop(f1, f2, file_content) ==
    LET r1 == call(f1, file_content)
    IN  IF r1.res.kind = "raise" THEN r1
        ELSE LET r2 == call(f2, IF r1.res.kind = "none" THEN file_content ELSE r1.res.val)
             IN  [res |-> r2.res, log |-> r1.log \o r2.log]

\* An exception raised by f1 leaves helper at once; None is returned at once.
helper(f1, f2, file_content) ==
    LET r1 == call(f1, file_content)
    IN  IF r1.res.kind = "raise" THEN r1
        ELSE IF r1.res.kind = "none" THEN r1
        ELSE LET r2 == call(f2, r1.res.val)
             IN  [res |-> r2.res, log |-> r1.log \o r2.log]

\* Calling a callable: its result and the functions it ran, in order, each
\* with the kind of value it produced.
call(c, file_content) ==
    IF c[1] = "fun"
    THEN LET r == apply(c[2], file_content)
         IN  [res |-> r, log |-> <<[fun |-> c[2], out |-> r.kind]>>]
    ELSE helper(c[2], c[3], file_content)

\* compose with first and second exchanged.
compose_swapped(mods, filename, fun) ==
    IF filename \in DOMAIN mods
    THEN [mods EXCEPT ![filename] = Closure(fun, mods[filename])]
    ELSE (filename :> fun) @@ mods

\* A name with a callable gets the closure over it and fun; a new name gets fun.
compose(mods, filename, fun) ==
    IF filename \in DOMAIN mods
    THEN [mods EXCEPT ![filename] = Closure(mods[filename], fun)]
    ELSE (filename :> fun) @@ mods

EmptyDict == [n \in {} |-> <<>>]

-----------------------------------------------------------------------------
(* Reading and writing archive entries.                                      *)

\* bytes.decode('utf-8'): 0xC3 0xBC is one letter, any other byte above
\* ASCII is invalid.
RECURSIVE utf8_decode(_, _)
utf8_decode(b, i) ==
    IF i > Len(b) THEN Str(<<>>)
    ELSE IF b[i] = "0xC3" /\ i + 1 <= Len(b) /\ b[i + 1] = "0xBC"
         THEN LET rest == utf8_decode(b, i + 2)
              IN  IF rest.kind = "raise" THEN rest ELSE Str(<<"U+00FC">> \o rest.val)
    ELSE IF b[i] \in {"0xC3", "0xBC", "0xFF"} THEN Raise("UnicodeDecodeError")
    ELSE LET rest == utf8_decode(b, i + 1)
         IN  IF rest.kind = "raise" THEN rest ELSE Str(<<b[i]>> \o rest.val)

\* TextIOWrapper's universal newlines: "\r\n" and "\r" are read as "\n".
RECURSIVE translate_newlines(_, _)
translate_newlines(s, i) ==
    IF i > Len(s) THEN <<>>
    ELSE IF s[i] = CR /\ i + 1 <= Len(s) /\ s[i + 1] = LF
         THEN <<LF>> \o translate_newlines(s, i + 2)
    ELSE IF s[i] = CR THEN <<LF>> \o translate_newlines(s, i + 1)
    ELSE <<s[i]>> \o translate_newlines(s, i + 1)

\* TextIOWrapper(infile, 'utf-8').read()
read_text(data) ==
    LET d == utf8_decode(data, 1)
    IN  IF d.kind = "raise" THEN d ELSE Str(translate_newlines(d.val, 1))

\* str.encode('utf-8'), as writestr does with a str.
RECURSIVE utf8_encode(_, _)
utf8_encode(s, i) ==
    IF i > Len(s) THEN <<>>
    ELSE (IF s[i] = "U+00FC" THEN <<"0xC3", "0xBC">> ELSE <<s[i]>>) \o utf8_encode(s, i + 1)

\* The entry read through a text layer, its line breaks translated.
read_bytes_as_text(data) == translate_newlines(data, 1)

\* infile.read(): the bytes of the entry as they are.
read_bytes(data) == data

\* The entry added before those written.
writestr_first(zf, name, data) == <<[name |-> name, data |-> data]>> \o zf

\* ZipFile.writestr(name, data): the entry is added after those written.
writestr(zf, name, data) == Append(zf, [name |-> name, data |-> data])

\* Mode 'a': the entries the file holds are kept.
open_append(old) == old

\* zipfile.ZipFile(target, 'w'): the file is truncated.

open_write(old) == <<>>

-----------------------------------------------------------------------------
(* The archives, registries and command lines the model runs on.             *)

MaxEntries == 3         \* entries of the source archive

MaxCompose == 2         \* compose calls of a caller of modify_zip_file

MaxOptions == 2         \* --escape-double-quotes and --delete options given

MaxLen == 5             \* length of a text a transformation is called on alone

TxtNames == {"trips.txt", "stops.txt"}

Names == TxtNames \cup {"logo.png"}

\* str.endswith('.txt')
endswith_txt(filename) == filename \in TxtNames

ContentsOf(name) ==
    CASE name = "trips.txt" ->
            { <<"id", LF, "0xC3", "0xBC", QUOTE, "2", LF>>,
              <<"bikes_allowed", CR, LF, "0", CR, LF>>,
              <<"id", LF, "0xC3">> }
      [] name = "stops.txt" -> { <<"location_type", LF, "2", LF>> }
      [] name = "logo.png" -> { <<"0xFF", CR, LF, "0xC3", "0xBC">> }

Entries == UNION {{[name |-> n, data |-> d] : d \in ContentsOf(n)} : n \in Names}

\* The entry names of an archive are unique.
Archives ==
    UNION {{a \in [1..k -> Entries] :
                \A i, j \in 1..k : a[i].name = a[j].name => i = j} : k \in 0..MaxEntries}

\* The target path names no file yet, or a file written earlier.
PrevTargets == {<<>>, <<[name |-> "old.txt", data |-> <<"0">>]>>}

SeqsUpTo(S, n) == UNION {[1..k -> S] : k \in 0..n}

ArgsSet ==
    {a \in [escape_double_quotes : SeqsUpTo(Names, MaxOptions),
            bikes_allowed : BOOLEAN, exists_ok : BOOLEAN,
            change_stop_locations : BOOLEAN,
            delete : SeqsUpTo(Names, MaxOptions)] :
        Len(a.escape_double_quotes) + Len(a.delete) <= MaxOptions}

NoArgs == [escape_double_quotes |-> <<>>, bikes_allowed |-> FALSE, exists_ok |-> FALSE,
           change_stop_locations |-> FALSE, delete |-> <<>>]

FunAlphabet == {"0", "2", COMMA, QUOTE, LF, "bikes_allowed", "location_type"}

\* Scenarios 1, 3 and 5 of the specification, a table of a header alone,
\* tables whose rows end at a line boundary other than "\n", and the example
\* of escape_double_quotes, its name cut to two letters.
Scenarios ==
    { <<"id", LF, "0", LF>>,
      <<"id", LF>>,
      <<"location_type", LF, "2", "\f", "2", LF>>,
      <<"bikes_allowed", "U+2028", "0", "U+0085", QUOTE, "2">>,
      <<"bikes_allowed", LF, QUOTE, QUOTE, LF, "0", LF, "1", LF, "2", LF>>,
      <<"location_type", LF, "0", LF, "1", LF, "2", LF, "2", LF>>,
      <<QUOTE, "(", " ", QUOTE, "R", "n", QUOTE, " ", ")", QUOTE, COMMA, QUOTE, "2", QUOTE>> }

Inputs == SeqsUpTo(FunAlphabet, MaxLen) \cup Scenarios

Unset == [kind |-> "unset", val |-> <<>>, err |-> ""]

Range(f) == {f[k] : k \in DOMAIN f}

-----------------------------------------------------------------------------
(* main: the registry built from the command line.                           *)

\* assert len(filenames) == len(list(set(filenames)))
unique(filenames) == Cardinality(Range(filenames)) = Len(filenames)

\* The for loop over args.escape_double_quotes from position k on: the first
\* name not ending in .txt fails its assert, after the compose calls for the
\* names before it.  composed: the names compose was called for, in order.
RECURSIVE escape_loop(_, _, _, _)
escape_loop(mods, filenames, k, composed) ==
    IF k > Len(filenames) THEN [err |-> "", mods |-> mods, composed |-> composed]
    ELSE IF ~endswith_txt(filenames[k])
         THEN [err |-> "AssertionError", mods |-> mods, composed |-> composed]
    ELSE escape_loop(compose(mods, filenames[k], Fun("escape_double_quotes")),
                     filenames, k + 1, Append(composed, filenames[k]))

main_escape(mods, a) ==
    IF Len(a.escape_double_quotes) > 0
    THEN IF unique(a.escape_double_quotes)
         THEN escape_loop(mods, a.escape_double_quotes, 1, <<>>)
         ELSE [err |-> "AssertionError", mods |-> mods, composed |-> <<>>]
    ELSE [err |-> "", mods |-> mods, composed |-> <<>>]

\* The compose calls of the escape block, added to the history of each name.
escape_registered(reg, composed) ==
    [n \in Names |->
        IF n \in Range(composed) THEN Append(reg[n], "escape_double_quotes") ELSE reg[n]]

bikes_lambda(a) ==
    Fun(IF a.exists_ok THEN "add_bikes_allowed_exists_ok" ELSE "add_bikes_allowed")

main_bikes(mods, a) ==
    IF a.bikes_allowed THEN compose(mods, "trips.txt", bikes_lambda(a)) ELSE mods

main_stops(mods, a) ==
    IF a.change_stop_locations
    THEN compose(mods, "stops.txt", Fun("change_location_type"))
    ELSE mods

\* A delete request that leaves a name alone once it has a callable.
delete_unless_modified(mods, filenames) ==
    [n \in DOMAIN mods \cup Range(filenames) |->
        IF n \in DOMAIN mods THEN mods[n] ELSE Fun("delete")]

\* modifications[filename] = lambda file_content: None, for every filename.
delete_loop(mods, filenames) ==
    [n \in DOMAIN mods \cup Range(filenames) |->
        IF n \in Range(filenames) THEN Fun("delete") ELSE mods[n]]

main_delete(mods, a) ==
    IF Len(a.delete) > 0
    THEN IF unique(a.delete)
         THEN [err |-> "", mods |-> delete_loop(mods, a.delete)]
         ELSE [err |-> "AssertionError", mods |-> mods]
    ELSE [err |-> "", mods |-> mods]

-----------------------------------------------------------------------------
(* The state machine.  pc: "main_escape", "main_bikes", "main_stops",        *)
(* "main_delete" are the four blocks of main; "open" is the call of          *)
(* modify_zip_file; "loop" its for loop; "done" its return; "aborted" an     *)
(* exception that left the program; "fun", "once", "twice" the positions of  *)
(* a transformation called on its own.                                       *)

Idle ==
    /\ input = <<>> /\ fname = "" /\ out1 = Unset /\ out2 = Unset

Fresh ==
    /\ source = <<>>
    /\ target = target0
    /\ modifications = EmptyDict
    /\ registered = [n \in Names |-> <<>>]
    /\ idx = 0
    /\ executed = <<>>
    /\ error = ""

\* A caller of the library: it composes its registry, then calls modify_zip_file.
Init ==
    /\ target0 \in PrevTargets
    /\ Fresh /\ Idle
    /\ args = NoArgs
    /\ pc = "open"

\* The command line program.
InitMain ==
    /\ target0 \in PrevTargets
    /\ Fresh /\ Idle
    /\ args \in ArgsSet
    /\ pc = "main_escape"

\* A transformation called on a text.
InitFun ==
    /\ target0 = <<>>
    /\ Fresh
    /\ args = NoArgs
    /\ input \in Inputs
    /\ fname = "" /\ out1 = Unset /\ out2 = Unset
    /\ pc = "fun"

Registrations == Len(registered["trips.txt"]) + Len(registered["stops.txt"])
                    + Len(registered["logo.png"])

\* compose(modifications, name, f), called by a caller of the library.
Compose ==
    /\ pc = "open"
    /\ Registrations < MaxCompose
    /\ \E name \in Names, f \in Transformations :
          /\ modifications' = compose(modifications, name, Fun(f))
          /\ registered' = [registered EXCEPT ![name] = Append(@, f)]
    /\ UNCHANGED <<source, target, target0, pc, idx, executed, error, args,
                   input, fname, out1, out2>>

Abort(e) ==
    /\ pc' = "aborted"
    /\ error' = e

MainEscape ==
    /\ pc = "main_escape"
    /\ LET r == main_escape(modifications, args)
       IN  /\ r.err = ""
           /\ modifications' = r.mods
           /\ registered' = escape_registered(registered, r.composed)
           /\ pc' = "main_bikes"
    /\ UNCHANGED <<source, target, target0, idx, executed, error, args,
                   input, fname, out1, out2>>

MainEscapeAssert ==
    /\ pc = "main_escape"
    /\ LET r == main_escape(modifications, args)
       IN  /\ r.err # ""
           /\ modifications' = r.mods
           /\ registered' = escape_registered(registered, r.composed)
           /\ Abort(r.err)
    /\ UNCHANGED <<source, target, target0, idx, executed, args,
                   input, fname, out1, out2>>

MainBikes ==
    /\ pc = "main_bikes"
    /\ modifications' = main_bikes(modifications, args)
    /\ registered' = [registered EXCEPT !["trips.txt"] =
          IF args.bikes_allowed THEN Append(@, bikes_lambda(args)[2]) ELSE @]
    /\ pc' = "main_stops"
    /\ UNCHANGED <<source, target, target0, idx, executed, error, args,
                   input, fname, out1, out2>>

MainStops ==
    /\ pc = "main_stops"
    /\ modifications' = main_stops(modifications, args)
    /\ registered' = [registered EXCEPT !["stops.txt"] =
          IF args.change_stop_locations THEN Append(@, "change_location_type") ELSE @]
    /\ pc' = "main_delete"
    /\ UNCHANGED <<source, target, target0, idx, executed, error, args,
                   input, fname, out1, out2>>

MainDelete ==
    /\ pc = "main_delete"
    /\ LET r == main_delete(modifications, args)
       IN  /\ r.err = ""
           /\ modifications' = r.mods
           /\ registered' = [n \in Names |->
                 IF n \in Range(args.delete) THEN <<"delete">> ELSE registered[n]]
           /\ pc' = "open"
    /\ UNCHANGED <<source, target, target0, idx, executed, error, args,
                   input, fname, out1, out2>>

MainDeleteAssert ==
    /\ pc = "main_delete"
    /\ LET r == main_delete(modifications, args)
       IN  /\ r.err # ""
           /\ Abort(r.err)
    /\ UNCHANGED <<source, target, target0, modifications, registered, idx, executed,
                   args, input, fname, out1, out2>>

\* with zipfile.ZipFile(source, 'r') as source_zf, zipfile.ZipFile(target, 'w') as target_zf:
\* the source archive is whatever archive the path names.
Open ==
    /\ pc = "open"
    /\ source' \in Archives
    /\ target' = open_write(target)
    /\ idx' = 1
    /\ pc' = "loop"
    /\ UNCHANGED <<target0, modifications, registered, executed, error, args,
                   input, fname, out1, out2>>

InLoop == pc = "loop" /\ idx <= Len(source)

\* The functions run on entry i, as `executed` records them.
Tagged(i, log) == [k \in 1..Len(log) |-> [entry |-> i, fun |-> log[k].fun, out |-> log[k].out]]

\* The else branch: the entry is copied.
Copy ==
    /\ InLoop
    /\ source[idx].name \notin DOMAIN modifications
    /\ target' = writestr(target, source[idx].name, read_bytes(source[idx].data))
    /\ idx' = idx + 1
    /\ UNCHANGED <<source, target0, modifications, registered, pc, executed, error, args,
                   input, fname, out1, out2>>

\* TextIOWrapper(infile, 'utf-8').read() raises; the with statement closes the
\* target with the entries written so far.
DecodeError ==
    /\ InLoop
    /\ source[idx].name \in DOMAIN modifications
    /\ read_text(source[idx].data).kind = "raise"
    /\ Abort(read_text(source[idx].data).err)
    /\ UNCHANGED <<source, target, target0, modifications, registered, idx, executed, args,
                   input, fname, out1, out2>>

Modifying ==
    /\ InLoop
    /\ source[idx].name \in DOMAIN modifications
    /\ read_text(source[idx].data).kind = "str"

Content == call(modifications[source[idx].name], read_text(source[idx].data).val)

\* content is None: continue.
ModifyDelete ==
    /\ Modifying
    /\ Content.res.kind = "none"
    /\ executed' = executed \o Tagged(idx, Content.log)
    /\ idx' = idx + 1
    /\ UNCHANGED <<source, target, target0, modifications, registered, pc, error, args,
                   input, fname, out1, out2>>

\* content is a str: target_zf.writestr(zipinfo.filename, content).  (The
\* transformations return a str or None, so the final else is never taken.)
ModifyWrite ==
    /\ Modifying
    /\ Content.res.kind = "str"
    /\ executed' = executed \o Tagged(idx, Content.log)
    /\ target' = writestr(target, source[idx].name, utf8_encode(Content.res.val, 1))
    /\ idx' = idx + 1
    /\ UNCHANGED <<source, target0, modifications, registered, pc, error, args,
                   input, fname, out1, out2>>

\* The transformation raises: the exception leaves modify_zip_file, and the
\* with statement closes the target with the entries written so far.
ModifyRaise ==
    /\ Modifying
    /\ Content.res.kind = "raise"
    /\ executed' = executed \o Tagged(idx, Content.log)
    /\ Abort(Content.res.err)
    /\ UNCHANGED <<source, target, target0, modifications, registered, idx, args,
                   input, fname, out1, out2>>

\* infolist() is exhausted: both archives are closed.
Close ==
    /\ pc = "loop"
    /\ idx > Len(source)
    /\ pc' = "done"
    /\ UNCHANGED <<source, target, target0, modifications, registered, idx, executed,
                   error, args, input, fname, out1, out2>>

\* A transformation is called on the input text.
CallOnce ==
    /\ pc = "fun"
    /\ \E f \in Transformations \ {"delete"} :
          /\ fname' = f
          /\ out1' = apply(f, input)
    /\ pc' = "once"
    /\ UNCHANGED <<source, target, target0, modifications, registered, idx, executed,
                   error, args, input, out2>>

\* The same transformation is called on the text it returned.
CallAgain ==
    /\ pc = "once"
    /\ out1.kind = "str"
    /\ out2' = apply(fname, out1.val)
    /\ pc' = "twice"
    /\ UNCHANGED <<source, target, target0, modifications, registered, idx, executed,
                   error, args, input, fname, out1>>

Run == Open \/ Copy \/ DecodeError \/ ModifyDelete \/ ModifyWrite \/ ModifyRaise \/ Close

Next == Compose \/ Run

NextMain ==
    \/ MainEscape \/ MainEscapeAssert \/ MainBikes \/ MainStops
    \/ MainDelete \/ MainDeleteAssert \/ Run

NextFun == CallOnce \/ CallAgain

Spec == Init /\ [][Next]_vars

SpecMain == InitMain /\ [][NextMain]_vars

SpecFun == InitFun /\ [][NextFun]_vars

-----------------------------------------------------------------------------
(* Properties of the archive pipeline and the registry.                      *)

NamesOf(archive) == [k \in 1..Len(archive) |-> archive[k].name]

\* The chain registered for entry e returns None on its content.
ChainDeletes(e) ==
    /\ e.name \in DOMAIN modifications
    /\ read_text(e.data).kind = "str"
    /\ call(modifications[e.name], read_text(e.data).val).res.kind = "none"

\* The names of source[i..] whose chain does not return None.
RECURSIVE KeptNames(_)
KeptNames(i) ==
    IF i > Len(source) THEN <<>>
    ELSE (IF ChainDeletes(source[i]) THEN <<>> ELSE <<source[i].name>>) \o KeptNames(i + 1)

\* C1: after a successful run the entry names of the target are those of the
\* source, in source order, without the entries whose chain returned None:
\* none added, duplicated, reordered or missing.
C1_OrderPreserved == pc = "done" => NamesOf(target) = KeptNames(1)

C1_Witness ==
    /\ pc = "done"
    /\ Len(target) >= 1
    /\ \E i, j \in 1..Len(source) :
          i < j /\ ChainDeletes(source[i]) /\ ~ChainDeletes(source[j])

\* C2: every source entry the loop has passed whose name is no key of the
\* registry is in the target once, under its name, with the bytes it had in
\* the source.
C2_UntouchedIdentical ==
    \A i \in 1..Len(source) :
        (pc \in {"loop", "done", "aborted"} /\ i < idx
            /\ source[i].name \notin DOMAIN modifications)
        => /\ \E j \in 1..Len(target) : target[j] = source[i]
           /\ Cardinality({j \in 1..Len(target) : target[j].name = source[i].name}) = 1

\* An entry that is no UTF-8 text and holds "\r\n" was copied, next to a
\* registered one.
C2_Witness ==
    /\ pc = "done"
    /\ DOMAIN modifications # {}
    /\ \E i \in 1..Len(source) :
          /\ source[i].name \notin DOMAIN modifications
          /\ read_text(source[i].data).kind = "raise"
          /\ \E k \in 1..Len(source[i].data) : source[i].data[k] = CR

\* C3: when a transformation of a chain returns None, it is the last one run
\* on that entry, and the target holds no entry of that name.
C3_DeletionShortCircuit ==
    \A k \in 1..Len(executed) :
        executed[k].out = "none"
        => /\ k = Len(executed) \/ executed[k + 1].entry # executed[k].entry
           /\ \A j \in 1..Len(target) : target[j].name # source[executed[k].entry].name

\* A chain whose last registered transformation is not the one that returned
\* None: a later transformation was there to be skipped.
C3_Witness ==
    /\ pc = "done"
    /\ \E k \in 1..Len(executed) :
          /\ executed[k].out = "none"
          /\ LET chain == registered[source[executed[k].entry].name]
             IN  Len(chain) >= 2 /\ chain[Len(chain)] # "delete"

\* T1, ..., Tn applied in this order, each to the output of the one before;
\* the first None or exception is the result.
RECURSIVE InOrder(_, _, _)
InOrder(fs, k, text) ==
    IF k > Len(fs) THEN Str(text)
    ELSE LET r == apply(fs[k], text)
         IN  IF r.kind = "str" THEN InOrder(fs, k + 1, r.val) ELSE r

SampleTexts == {read_text(e.data).val : e \in {x \in Entries : read_text(x.data).kind = "str"}}

\* C4: the registry holds a callable exactly for the names composed, and on
\* every text on which no Ti returns None or raises, the callable of a name
\* returns Tn(...T2(T1(text))...), T1..Tn being the transformations composed
\* for that name in call order; a compose call for one name changes this for
\* no other name.  (The registry is built before modify_zip_file is called,
\* and not written after.)
C4_CompositionOrder ==
    pc = "open" =>
    \A n \in Names :
        /\ n \in DOMAIN modifications <=> registered[n] # <<>>
        /\ \A text \in SampleTexts :
              (n \in DOMAIN modifications /\ InOrder(registered[n], 1, text).kind = "str")
              => call(modifications[n], text).res = InOrder(registered[n], 1, text)

Reverse(fs) == [k \in 1..Len(fs) |-> fs[Len(fs) + 1 - k]]

\* Two transformations composed for one name whose order matters on some text,
\* and another name registered beside it or not.
C4_Witness ==
    \E n \in Names, text \in SampleTexts :
        /\ Len(registered[n]) = 2
        /\ InOrder(registered[n], 1, text).kind = "str"
        /\ InOrder(Reverse(registered[n]), 1, text).kind = "str"
        /\ InOrder(Reverse(registered[n]), 1, text) # InOrder(registered[n], 1, text)
        /\ call(modifications[n], text).res = InOrder(registered[n], 1, text)

\* What the target holds after the loop has passed source[1..k].
RECURSIVE Outputs(_)
Outputs(k) ==
    IF k = 0 THEN <<>>
    ELSE LET e == source[k]
         IN  IF e.name \notin DOMAIN modifications THEN Append(Outputs(k - 1), e)
             ELSE LET r == call(modifications[e.name], read_text(e.data).val).res
                  IN  IF r.kind = "str"
                      THEN Append(Outputs(k - 1), [name |-> e.name, data |-> utf8_encode(r.val, 1)])
                      ELSE Outputs(k - 1)

ColumnExistsAbort == pc = "aborted" /\ error = "ValueError_ColumnExists"

\* C5 as claimed: when add_bikes_allowed fails on an existing column with
\* exists_ok false, the target archive is what it was before the run.
C5_TargetUnaffected == ColumnExistsAbort => target = target0

\* C5 amended: when add_bikes_allowed fails on an existing column with
\* exists_ok false, the run aborts and writes no entry for the failing or any
\* later source entry; the target, truncated when it was opened, is left
\* holding exactly the outputs of the source entries before the failing one.
C5_AbortLeavesPrefix ==
    ColumnExistsAbort
    => /\ target = Outputs(idx - 1)
       /\ \A j \in 1..Len(target), i \in idx..Len(source) : target[j].name # source[i].name

C5_Witness ==
    /\ ColumnExistsAbort
    /\ idx = 2
    /\ Len(target) = 1
    /\ target0 # <<>>

\* What main's options ask for on the decoded content of an entry named n.
Escaped(n, text) ==
    IF n \in Range(args.escape_double_quotes) THEN escape_double_quotes(text) ELSE Str(text)

WithColumn(n, r) ==
    IF r.kind = "str" /\ n = "trips.txt" /\ args.bikes_allowed
    THEN add_bikes_allowed(r.val, args.exists_ok)
    ELSE IF r.kind = "str" /\ n = "stops.txt" /\ args.change_stop_locations
    THEN change_location_type(r.val)
    ELSE r

Targeted(n) ==
    \/ n \in Range(args.escape_double_quotes)
    \/ n = "trips.txt" /\ args.bikes_allowed
    \/ n = "stops.txt" /\ args.change_stop_locations

RECURSIVE MainOutputs(_)
MainOutputs(k) ==
    IF k = 0 THEN <<>>
    ELSE LET e == source[k]
         IN  IF e.name \in Range(args.delete) THEN MainOutputs(k - 1)
             ELSE IF ~Targeted(e.name) THEN Append(MainOutputs(k - 1), e)
             ELSE LET r == WithColumn(e.name, Escaped(e.name, read_text(e.data).val))
                  IN  Append(MainOutputs(k - 1),
                             [name |-> e.name, data |-> utf8_encode(r.val, 1)])

\* C6: with the registry main builds, an entry named in a delete request is
\* never written, whatever else was asked for it; and after a successful run
\* the target holds, in source order, every entry not named in a delete
\* request: quote-escaped first, then with its column added or repaired,
\* when asked, and as it was when nothing was asked for it.
C6_MainOrder ==
    /\ pc \in {"loop", "done", "aborted"} /\ idx >= 1
       => \A j \in 1..Len(target) : target[j].name \notin Range(args.delete)
    /\ pc = "done" => target = MainOutputs(Len(source))

\* An entry both quote-escaped and given its column, where the order matters,
\* beside an entry whose earlier registration a delete request overrode.
C6_Witness ==
    /\ pc = "done"
    /\ "trips.txt" \in Range(args.escape_double_quotes) /\ args.bikes_allowed
    /\ "stops.txt" \in Range(args.delete) /\ args.change_stop_locations
    /\ \E i, j \in 1..Len(source) :
          /\ source[i].name = "trips.txt" /\ source[j].name = "stops.txt"
          /\ LET text == read_text(source[i].data).val
             IN  escape_double_quotes(add_bikes_allowed(text, args.exists_ok).val)
                    # add_bikes_allowed(escape_double_quotes(text).val, args.exists_ok)
    /\ NamesOf(target) = <<"trips.txt">>

-----------------------------------------------------------------------------
(* Properties of the transformations, each called on a text of its own.      *)

Table(text) == parse_csv(splitlines(text))

\* A header row and data rows of the same number of fields.
Rectangular(data) ==
    /\ data # <<>>
    /\ \A r \in 1..Len(data) : Len(data[r]) = Len(data[1])

Called(f) == pc \in {"once", "twice"} /\ fname = f

\* The table with value `to` in column c of every data row holding one of `from`.
Rewritten(data, c, from, to) ==
    [r \in 1..Len(data) |->
        IF r >= 2 /\ data[r][c] \in from THEN [data[r] EXCEPT ![c] = to] ELSE data[r]]

ValidBikesTable(data) ==
    /\ Rectangular(data)
    /\ Len(data) >= 2
    /\ Contains(data[1], <<"bikes_allowed">>)
    /\ \A r \in 2..Len(data) :
          data[r][Index(data[1], <<"bikes_allowed">>)] \in possible_values

\* C7: add_bikes_allowed with exists_ok on a table with a bikes_allowed
\* column, at least one data row and only valid values returns the table with
\* every value "" or "0" of that column set to "1" and nothing else changed.
C7_UndefinedSetToAllowed ==
    (Called("add_bikes_allowed_exists_ok") /\ ValidBikesTable(Table(input)))
    => /\ out1.kind = "str"
       /\ Table(out1.val) =
             Rewritten(Table(input), Index(Table(input)[1], <<"bikes_allowed">>),
                       {<<>>, <<"0">>}, <<"1">>)

\* A quote with a character on either side, neither of them a comma, a quote
\* or a line feed.
Bare(s, i) ==
    /\ s[i] = QUOTE
    /\ 1 < i /\ i < Len(s)
    /\ LastChar(s[i - 1]) \notin {COMMA, QUOTE, LF}
    /\ FirstChar(s[i + 1]) \notin {COMMA, QUOTE, LF}

RECURSIVE EscapeEach(_, _)
EscapeEach(s, i) ==
    IF i > Len(s) THEN <<>>
    ELSE (IF Bare(s, i) THEN <<QUOTE, QUOTE>> ELSE <<s[i]>>) \o EscapeEach(s, i + 1)

\* C8: escape_double_quotes returns its input with every such quote doubled,
\* however close together they lie, and every other character as it was.
C8_EveryBareQuoteDoubled ==
    Called("escape_double_quotes") => out1 = Str(EscapeEach(input, 1))

\* C9: on a table of equally long rows on which add_bikes_allowed with
\* exists_ok succeeds, a second call on the result succeeds and returns it
\* unchanged.
C9_Idempotent ==
    (pc = "twice" /\ fname = "add_bikes_allowed_exists_ok" /\ Rectangular(Table(input)))
    => out2 = out1

\* C10: change_location_type on a table of equally long rows, with any number
\* of data rows, returns the table with every "2" of the location_type column
\* set to "0" and nothing else changed; without that column, the table as it is.
C10_LocationTypeRewritten ==
    (Called("change_location_type") /\ Rectangular(Table(input)))
    => /\ out1.kind = "str"
       /\ Table(out1.val) =
             IF Contains(Table(input)[1], <<"location_type">>)
             THEN Rewritten(Table(input), Index(Table(input)[1], <<"location_type">>),
                            {<<"2">>}, <<"0">>)
             ELSE Table(input)

=============================================================================
